---- MODULE Spec2Model ----
(***************************************************************************)
(* A model of scape_utils: the 3DU16 header codec (ScapeImageHeader) and   *)
(* the memory-mapped volume accessor (ScapeVirtualStack) of                *)
(* src/src/scape_utils/utils.py, over files laid out as the fixture of     *)
(* src/tests/test_header.py lays them out.                                 *)
(*                                                                         *)
(* Bytes are integers 0..255, a file is a sequence of bytes, an ndarray is *)
(* a record of element type, shape, strides (in elements) and a flat data  *)
(* buffer, so that reshape, slicing and transpose act as numpy's do.       *)
(* Objects dropped by reassignment of an attribute are not tracked: the    *)
(* model follows the attributes handler and raf of one stack.              *)
(***************************************************************************)
EXTENDS Integers, Sequences, FiniteSets, TLC

---------------------------------------------------------------------------
(* Bounds of the model. *)
MaxT == 3
MaxC == 2
MaxZ == 2
MaxY == 2
MaxX == 2
MaxPixels == 8
MaxChunk == 4

(* Program constants. *)
HEADER_SIZE == 52
gap == 16
U16 == 65536

(* First sample of frame 0 in the generated files: the samples that       *)
(* follow have a high byte other than the low one and wrap around 16 bits. *)
Bases == {65530}

(* Conversion keys handed to the retrieval operations: None, the two keys  *)
(* of LUT_TABLE, the third key of the Literal annotation, and a key that   *)
(* is none of these ("org", as test_readfile passes).                      *)
Conversions == {"None", "u8", "f32", "u16", "org"}

---------------------------------------------------------------------------
(* Arithmetic and sequence helpers. *)
Min(a, b) == IF a < b THEN a ELSE b

Max(a, b) == IF a > b THEN a ELSE b

RECURSIVE Flatten(_)
Flatten(ss) == IF ss = <<>> THEN <<>> ELSE Head(ss) \o Flatten(Tail(ss))

RECURSIVE Prod(_)
Prod(s) == IF s = <<>> THEN 1 ELSE Head(s) * Prod(Tail(s))

(* struct.pack(">i", n) for n >= 0. *)
PackI32(n) ==
    << (n \div 16777216) % 256, (n \div 65536) % 256, (n \div 256) % 256, n % 256 >>

(* struct.pack(">H", n). *)
PackU16(n) == << (n \div 256) % 256, n % 256 >>

(* struct.unpack(">i", b[off : off + 4]) for a non-negative value. *)
UnpackI32(b, off) ==
    b[off + 1] * 16777216 + b[off + 2] * 65536 + b[off + 3] * 256 + b[off + 4]

(* b[lo:hi] of a bytes-like object, 0 <= lo: clipped to the length. *)
Slice(b, lo, hi) == SubSeq(b, lo + 1, Min(hi, Len(b)))

---------------------------------------------------------------------------
(* The test fixture's file: header, then per frame i a 16-byte gap         *)
(* restating (C, Z, Y, X) + i and C*Z*Y*X samples pattern[k] + i.          *)
ScaleZ == <<63, 236, 204, 204, 204, 204, 204, 205>>

ScaleYX == <<63, 221, 30, 184, 81, 235, 133, 31>>

FixtureHeader(T, C, Z, Y, X) ==
    PackI32(3) \o ScaleZ \o ScaleYX \o ScaleYX \o PackI32(5)
        \o PackI32(T) \o PackI32(C) \o PackI32(Z) \o PackI32(Y) \o PackI32(X)

FixtureFrame(i, C, Z, Y, X, base) ==
    PackI32(C + i) \o PackI32(Z + i) \o PackI32(Y + i) \o PackI32(X + i)
        \o Flatten([k \in 1..(C * Z * Y * X) |-> PackU16((base + (k - 1) + i) % U16)])

FixtureFile(T, C, Z, Y, X, base) ==
    FixtureHeader(T, C, Z, Y, X)
        \o Flatten([i \in 1..T |-> FixtureFrame(i - 1, C, Z, Y, X, base)])

---------------------------------------------------------------------------
(* ScapeImageHeader. *)
from_3DU16(bytes) ==
    LET raw == Slice(bytes, 0, HEADER_SIZE)
    IN [ z_scale   |-> SubSeq(raw, 5, 12),
         y_scale   |-> SubSeq(raw, 13, 20),
         x_scale   |-> SubSeq(raw, 21, 28),
         n_frame   |-> UnpackI32(raw, 32),
         n_channel |-> UnpackI32(raw, 36),
         depth     |-> UnpackI32(raw, 40),
         height    |-> UnpackI32(raw, 44),
         width     |-> UnpackI32(raw, 48) ]

pixels_per_volume(h) == h.height * h.width * h.depth * h.n_channel

bytes_per_volume(h) == pixels_per_volume(h) * 2 + 16

shape(h) == << h.n_frame, h.n_channel, h.depth, h.height, h.width >>

---------------------------------------------------------------------------
(* numpy arrays. *)
NoArray == [dtype |-> "none", shape |-> <<>>, strides |-> <<>>, data |-> <<>>]

(* One big-endian unsigned 16-bit sample: dtype "u2" with byte order ">". *)
BigEndianU2(raw, k) == raw[2 * k + 1] * 256 + raw[2 * k + 2]

(* np.frombuffer(raw, dtype=dt, count=n): the first n samples, flat. *)
frombuffer(raw, n) == [k \in 1..n |-> BigEndianU2(raw, k - 1)]

(* Row-major strides, in elements, of a freshly laid out array. *)
CStrides(shp) == [k \in 1..Len(shp) |-> Prod(SubSeq(shp, k + 1, Len(shp)))]

(* .reshape(shp) of a flat contiguous buffer. *)
reshape(flat, shp) ==
    [dtype |-> "u2", shape |-> shp, strides |-> CStrides(shp), data |-> flat]

(* stack[np.newaxis, :, :, :, :] *)
newaxis(a) ==
    [a EXCEPT !.shape = <<1>> \o a.shape, !.strides = <<Prod(a.shape)>> \o a.strides]

(* stack.transpose(axes): a view, shape and strides permuted (axes 0-based). *)
transpose(a, axes) ==
    [a EXCEPT !.shape = [k \in 1..Len(axes) |-> a.shape[axes[k] + 1]],
              !.strides = [k \in 1..Len(axes) |-> a.strides[axes[k] + 1]]]

(* Mutant of ImagejAxes: the axes left in place. *)
ImagejAxes_Identity == <<0, 1, 2, 3, 4>>

(* TCZYX -> TZCYX *)
ImagejAxes == <<0, 2, 1, 3, 4>>

(* Element a[idx] (idx 0-based, one entry per axis). *)
RECURSIVE Dot(_, _)
Dot(idx, strides) ==
    IF idx = <<>> THEN 0 ELSE Head(idx) * Head(strides) + Dot(Tail(idx), Tail(strides))

At(a, idx) == a.data[1 + Dot(idx, a.strides)]

(* LUT_TABLE: "u8" is floor(i / 256) as uint8, "f32" is the i-th of 65536  *)
(* evenly spaced points of [0, 1], the rational i/65535, kept as the pair  *)
(* <<numerator, denominator>>.                                             *)
LUT_TABLE ==
    [ u8  |-> [dtype |-> "u1", at |-> "floor256"],
      f32 |-> [dtype |-> "f4", at |-> "linspace"] ]

LutAt(lut, i) == IF lut.at = "floor256" THEN i \div 256 ELSE <<i, 65535>>

(* lut[stack]: element-wise lookup, the result has the lut's element type. *)
Lookup(lut, a) ==
    [a EXCEPT !.dtype = lut.dtype, !.data = [k \in 1..Len(a.data) |-> LutAt(lut, a.data[k])]]

---------------------------------------------------------------------------
(* What a call leaves behind: the exception raised ("none" if it returned), *)
(* whether a UserWarning was emitted, the array returned, and the slice    *)
(* [lo, hi) of the mapping it read (<<>> if it read none).                 *)
Raised(e, rd) == [exc |-> e, warned |-> FALSE, ret |-> NoArray, read |-> rd]

Returned(a, w, rd) == [exc |-> "none", warned |-> w, ret |-> a, read |-> rd]

(* Mutant of OutOfBoundary: the upper bound taken inclusive. *)
OutOfBoundary_Inclusive(i, T) == i < 0 \/ i > T

(* Lines 118, 166 and 169: the bounds test on a frame index.               *)
OutOfBoundary(i, T) == i < 0 \/ i >= T

(* Mutant of RafReadable: a closed mapping still yields bytes. *)
RafReadable_Stale(rafSt) == rafSt # "None"

(* self.raf[lo:hi] yields bytes only from an open mapping.                 *)
RafReadable(rafSt) == rafSt = "open"

(* self.raf[lo:hi]: None is not subscriptable, a closed mmap is invalid.   *)
RafError(rafSt) == IF rafSt = "None" THEN "TypeError" ELSE "ValueError"

(* Mutant of ConvertVolume: the table indexed, not asked, for the key. *)
ConvertVolume_KeyError(stack, conversion, rd) ==
    IF conversion = "None" THEN Returned(stack, FALSE, rd)
    ELSE IF conversion \notin DOMAIN LUT_TABLE THEN Raised("KeyError", rd)
    ELSE Returned(Lookup(LUT_TABLE[conversion], stack), FALSE, rd)

(* get_volume, lines 141-154: the conversion of the single-volume read.    *)
ConvertVolume(stack, conversion, rd) ==
    IF conversion = "None" THEN Returned(stack, FALSE, rd)
    ELSE IF conversion \notin DOMAIN LUT_TABLE THEN Returned(stack, TRUE, rd)
    ELSE Returned(Lookup(LUT_TABLE[conversion], stack), FALSE, rd)

(* get_multi_volumes, lines 198-211: the conversion of the range read.     *)
ConvertMulti(stack, conversion, rd) ==
    IF conversion = "None" \/ conversion = "u16" THEN Returned(stack, FALSE, rd)
    ELSE IF conversion \notin DOMAIN LUT_TABLE THEN Returned(stack, TRUE, rd)
    ELSE Returned(Lookup(LUT_TABLE[conversion], stack), FALSE, rd)

(* Mutant of VolumeOffset: the gap not skipped. *)
VolumeOffset_NoGap(h, index) == HEADER_SIZE + index * bytes_per_volume(h)

(* get_volume, lines 121-123: where the single-volume read starts.         *)
VolumeOffset(h, index) == HEADER_SIZE + index * bytes_per_volume(h) + gap

(* Mutant of RangeOffset: the first gap skipped up front. *)
RangeOffset_PastGap(h, start) == HEADER_SIZE + start * bytes_per_volume(h) + gap

(* get_multi_volumes, line 178: where the range read starts.               *)
RangeOffset(h, start) == HEADER_SIZE + start * bytes_per_volume(h)

(* get_volume, lines 128-135: decode one payload into (1, C, Z, Y, X).     *)
DecodeVolume(raw, h) ==
    newaxis(reshape(frombuffer(raw, pixels_per_volume(h)), SubSeq(shape(h), 2, 5)))

(* get_multi_volumes, lines 185-192: N rows of the whole frame, the first  *)
(* gap // 2 samples of every row dropped, then (N, C, Z, Y, X).            *)
DecodeMulti(raw, h, N) ==
    LET flat == frombuffer(raw, Len(raw) \div 2)
        cols == Len(flat) \div N
        rows == [n \in 1..N |-> SubSeq(flat, (n - 1) * cols + 1, n * cols)]
        kept == [n \in 1..N |-> SubSeq(rows[n], gap \div 2 + 1, cols)]
    IN reshape(Flatten(kept), <<N>> \o SubSeq(shape(h), 2, 5))

(* Whether the range read's buffer reshapes: whole samples, N equal rows,  *)
(* and C*Z*Y*X samples left in each after the gap.                         *)
MultiFits(raw, h, N) ==
    /\ Len(raw) % 2 = 0
    /\ (Len(raw) \div 2) % N = 0
    /\ (Len(raw) \div 2) \div N - gap \div 2 = pixels_per_volume(h)

get_volume(rafSt, bytes, h, index, conversion, imagej) ==
    LET T == shape(h)[1]
        lo == VolumeOffset(h, index)
        hi == lo - gap + bytes_per_volume(h)
        raw == Slice(bytes, lo, hi)
        stack == DecodeVolume(raw, h)
    IN IF OutOfBoundary(index, T) THEN Raised("IndexError", <<>>)
       ELSE IF ~RafReadable(rafSt) THEN Raised(RafError(rafSt), <<>>)
       ELSE IF Len(raw) < 2 * pixels_per_volume(h) THEN Raised("ValueError", <<lo, hi>>)
       ELSE ConvertVolume(IF imagej THEN transpose(stack, ImagejAxes) ELSE stack,
                          conversion, <<lo, hi>>)

(* Mutant of OrderedRange: start overwritten before end takes its value. *)
OrderedRange_Clobbered(start, end) == IF start > end THEN <<end, end>> ELSE <<start, end>>

(* Lines 172-173: an inverted range is swapped. *)
OrderedRange(start, end) == IF start > end THEN <<end, start>> ELSE <<start, end>>

get_multi_volumes(rafSt, bytes, h, start0, end0, conversion, imagej) ==
    LET T == shape(h)[1]
        se == OrderedRange(start0, end0)
        N == se[2] - se[1] + 1
        lo == RangeOffset(h, se[1])
        hi == lo + bytes_per_volume(h) * N
        raw == Slice(bytes, lo, hi)
        stack == DecodeMulti(raw, h, N)
    IN IF OutOfBoundary(start0, T) THEN Raised("IndexError", <<>>)
       ELSE IF OutOfBoundary(end0, T) THEN Raised("IndexError", <<>>)
       ELSE IF ~RafReadable(rafSt) THEN Raised(RafError(rafSt), <<>>)
       ELSE IF ~MultiFits(raw, h, N) THEN Raised("ValueError", <<lo, hi>>)
       ELSE ConvertMulti(IF imagej THEN transpose(stack, ImagejAxes) ELSE stack,
                         conversion, <<lo, hi>>)

---------------------------------------------------------------------------
(* Chunked export. *)

(* Mutant of ChunkEnd: the chunk one frame too long. *)
ChunkEnd_Overlap(start, chunksize, T) == Min(start + chunksize, T - 1)

(* Lines 249 and 284: the last frame of the chunk that begins at start.    *)
ChunkEnd(start, chunksize, T) == Min(start + chunksize - 1, T - 1)

(* Lines 247 and 282: range(0, T, chunksize) from start on, as the         *)
(* (start, end) pairs handed to get_multi_volumes.                         *)
RECURSIVE ChunkRanges(_, _, _)
ChunkRanges(start, chunksize, T) ==
    IF start >= T THEN <<>>
    ELSE << <<start, ChunkEnd(start, chunksize, T)>> >>
             \o ChunkRanges(start + chunksize, chunksize, T)

(* Lines 243 and 276: the element type declared to the writer.             *)
DeclaredDtype(conversion) ==
    IF conversion \in DOMAIN LUT_TABLE THEN LUT_TABLE[conversion].dtype ELSE "u2"

(* The index (0-based, one entry per axis) of flat position n, row-major.  *)
Unravel(n, shp) == [k \in 1..Len(shp) |-> (n \div CStrides(shp)[k]) % shp[k]]

ZeroOf(dtype) == IF dtype = "f4" THEN <<0, 65535>> ELSE 0

(* f.create_dataset("data", shp, dtype): a dataset of zeros.               *)
create_dataset(shp, dtype) ==
    [dtype |-> dtype, shape |-> shp, strides |-> CStrides(shp),
     data |-> [k \in 1..Prod(shp) |-> ZeroOf(dtype)]]

(* dset[start : end + 1, :, :, :, :] = stacks *)
SetRange(dset, start, end, stacks) ==
    [dset EXCEPT !.data =
        [k \in 1..Len(dset.data) |->
            LET idx == Unravel(k - 1, dset.shape)
            IN IF idx[1] >= start /\ idx[1] <= end
               THEN At(stacks, <<idx[1] - start>> \o Tail(idx))
               ELSE dset.data[k]]]

(* The calls of one export, in order, up to and including the first that   *)
(* raises: each entry is the (start, end) pair and what the call left.     *)
RECURSIVE ExportCalls(_, _, _, _, _)
ExportCalls(rafSt, bytes, h, conversion, ranges) ==
    IF ranges = <<>> THEN <<>>
    ELSE LET r == get_multi_volumes(rafSt, bytes, h, Head(ranges)[1], Head(ranges)[2],
                                    conversion, TRUE)
         IN << [range |-> Head(ranges), got |-> r] >>
              \o (IF r.exc # "none" THEN <<>>
                  ELSE ExportCalls(rafSt, bytes, h, conversion, Tail(ranges)))

RECURSIVE WriteAll(_, _)
WriteAll(dset, done) ==
    IF done = <<>> THEN dset
    ELSE WriteAll(IF Head(done).got.exc # "none" THEN dset
                  ELSE SetRange(dset, Head(done).range[1], Head(done).range[2],
                                Head(done).got.ret),
                  Tail(done))

ExportOutcome(done, dset) ==
    [ exc     |-> IF done = <<>> THEN "none" ELSE done[Len(done)].got.exc,
      warned  |-> \E n \in 1..Len(done) : done[n].got.warned,
      ret     |-> NoArray,
      read    |-> <<>>,
      calls   |-> [n \in 1..Len(done) |-> done[n].range],
      batches |-> [n \in 1..Len(SelectSeq(done, LAMBDA d : d.got.exc = "none")) |->
                      done[n].got.ret],
      dset    |-> dset ]

(* save_all_volumes_to_tiff: frames() yields one batch per chunk, which    *)
(* the writer consumes in order.                                           *)
save_all_volumes_to_tiff(rafSt, bytes, h, conversion, chunksize) ==
    ExportOutcome(ExportCalls(rafSt, bytes, h, conversion,
                              ChunkRanges(0, chunksize, shape(h)[1])),
                  NoArray)

(* save_all_volumes_to_hdf: each batch is written to its time slice.       *)
save_all_volumes_to_hdf(rafSt, bytes, h, conversion, chunksize) ==
    LET done == ExportCalls(rafSt, bytes, h, conversion,
                            ChunkRanges(0, chunksize, shape(h)[1]))
        shp == <<shape(h)[1], shape(h)[3], shape(h)[2], shape(h)[4], shape(h)[5]>>
    IN ExportOutcome(done, WriteAll(create_dataset(shp, DeclaredDtype(conversion)), done))

---------------------------------------------------------------------------
(* The state: the file on disk, one ScapeVirtualStack over it (its header, *)
(* handler and raf attributes), and the single-threaded caller: pc is     *)
(* "ready" between calls and "returned" when the call op has just ended    *)
(* and left result, which the caller then takes.                           *)
VARIABLES file, header, handler, raf, pc, op, result

vars == <<file, header, handler, raf, pc, op, result>>

NoCall ==
    [name |-> "__init__", index |-> 0, start |-> 0, end |-> 0,
     conversion |-> "None", imagej |-> FALSE, chunksize |-> 0, outcome |-> "ok"]

Outcome(r) ==
    [exc |-> r.exc, warned |-> r.warned, ret |-> r.ret, read |-> r.read,
     calls |-> <<>>, batches |-> <<>>, dset |-> NoArray]

(* __attrs_post_init__: the header is parsed, raf and handler are None.    *)
Init ==
    /\ \E T \in 1..MaxT, C \in 1..MaxC, Z \in 1..MaxZ, Y \in 1..MaxY, X \in 1..MaxX,
          base \in Bases :
           /\ C * Z * Y * X <= MaxPixels
           /\ file = FixtureFile(T, C, Z, Y, X, base)
    /\ header = from_3DU16(file)
    /\ handler = "None"
    /\ raf = "None"
    /\ pc = "ready"
    /\ op = NoCall
    /\ result = Outcome(Raised("none", <<>>))

(* __enter__: open, then mmap; either may fail (the file removed, or the   *)
(* mapping refused by the system).                                         *)
Enter(outcome) ==
    /\ pc = "ready"
    /\ pc' = "returned"
    /\ handler' = IF outcome = "open_fails" THEN handler ELSE "open"
    /\ raf' = IF outcome = "ok" THEN "open" ELSE raf
    /\ op' = [NoCall EXCEPT !.name = "__enter__", !.outcome = outcome]
    /\ result' = Outcome(Raised(CASE outcome = "ok" -> "none"
                                  [] outcome = "open_fails" -> "FileNotFoundError"
                                  [] outcome = "mmap_fails" -> "OSError", <<>>))
    /\ UNCHANGED <<file, header>>

(* __exit__: raf.close(), then handler.close(); None has no close.         *)
Exit ==
    /\ pc = "ready"
    /\ pc' = "returned"
    /\ raf' = IF raf = "None" THEN raf ELSE "closed"
    /\ handler' = IF raf = "None" THEN handler ELSE "closed"
    /\ op' = [NoCall EXCEPT !.name = "__exit__"]
    /\ result' = Outcome(Raised(IF raf = "None" THEN "AttributeError" ELSE "none", <<>>))
    /\ UNCHANGED <<file, header>>

GetVolume(index, conversion, imagej) ==
    /\ pc = "ready"
    /\ pc' = "returned"
    /\ op' = [NoCall EXCEPT !.name = "get_volume", !.index = index,
                            !.conversion = conversion, !.imagej = imagej]
    /\ result' = Outcome(get_volume(raf, file, header, index, conversion, imagej))
    /\ UNCHANGED <<file, header, handler, raf>>

GetMultiVolumes(start, end, conversion, imagej) ==
    /\ pc = "ready"
    /\ pc' = "returned"
    /\ op' = [NoCall EXCEPT !.name = "get_multi_volumes", !.start = start, !.end = end,
                            !.conversion = conversion, !.imagej = imagej]
    /\ result' = Outcome(get_multi_volumes(raf, file, header, start, end, conversion, imagej))
    /\ UNCHANGED <<file, header, handler, raf>>

SaveAllTiff(conversion, chunksize) ==
    /\ pc = "ready"
    /\ pc' = "returned"
    /\ op' = [NoCall EXCEPT !.name = "save_all_volumes_to_tiff",
                            !.conversion = conversion, !.chunksize = chunksize]
    /\ result' = save_all_volumes_to_tiff(raf, file, header, conversion, chunksize)
    /\ UNCHANGED <<file, header, handler, raf>>

SaveAllHdf(conversion, chunksize) ==
    /\ pc = "ready"
    /\ pc' = "returned"
    /\ op' = [NoCall EXCEPT !.name = "save_all_volumes_to_hdf",
                            !.conversion = conversion, !.chunksize = chunksize]
    /\ result' = save_all_volumes_to_hdf(raf, file, header, conversion, chunksize)
    /\ UNCHANGED <<file, header, handler, raf>>

(* The caller takes what the call left and is ready for the next call.    *)
Resume ==
    /\ pc = "returned"
    /\ pc' = "ready"
    /\ op' = NoCall
    /\ result' = Outcome(Raised("none", <<>>))
    /\ UNCHANGED <<file, header, handler, raf>>

(* Frame indices handed to the retrievals: all of [0, T) and one beyond    *)
(* each end.                                                               *)
Indices == -1..header.n_frame

Next ==
    \/ \E outcome \in {"ok", "open_fails", "mmap_fails"} : Enter(outcome)
    \/ Exit
    \/ \E i \in Indices, c \in Conversions, j \in BOOLEAN : GetVolume(i, c, j)
    \/ \E s \in Indices, e \in Indices, c \in Conversions, j \in BOOLEAN :
           GetMultiVolumes(s, e, c, j)
    \/ \E c \in Conversions, k \in 1..MaxChunk : SaveAllTiff(c, k)
    \/ \E c \in Conversions, k \in 1..MaxChunk : SaveAllHdf(c, k)
    \/ Resume

Spec == Init /\ [][Next]_vars

---------------------------------------------------------------------------
(* Vocabulary of the properties. *)
T_ == header.n_frame

C_ == header.n_channel

Z_ == header.depth

Y_ == header.height

X_ == header.width

Idx4(shp) ==
    {<<a, b, c, d>> : a \in 0..(shp[1] - 1), b \in 0..(shp[2] - 1),
                      c \in 0..(shp[3] - 1), d \in 0..(shp[4] - 1)}

Idx5(shp) ==
    {<<t, a, b, c, d>> : t \in 0..(shp[1] - 1), a \in 0..(shp[2] - 1), b \in 0..(shp[3] - 1),
                         c \in 0..(shp[4] - 1), d \in 0..(shp[5] - 1)}

(* Two arrays of the same element type and shape holding the same elements. *)
SameArray(a, b) ==
    /\ a.dtype = b.dtype
    /\ a.shape = b.shape
    /\ \A i \in Idx5(a.shape) : At(a, i) = At(b, i)

(* Big-endian u16 sample number k of frame i's payload, read off the file. *)
FileSample(i, k) ==
    LET at == 52 + i * (2 * C_ * Z_ * Y_ * X_ + 16) + 16 + 2 * k
    IN 256 * file[at + 1] + file[at + 2]

Called(name) == pc = "returned" /\ op.name = name

InRange(i) == 0 <= i /\ i < T_

WholeFile == Len(file) = 52 + T_ * (2 * C_ * Z_ * Y_ * X_ + 16)

(* C1: on a file of 52 + T*bytesPerVolume bytes, get_volume(i) with        *)
(* 0 <= i < T reads exactly the bytesPerVolume - 16 bytes from offset      *)
(* 52 + i*bytesPerVolume + 16; element [0, c, z, y, x] of the native       *)
(* result is big-endian sample ((c*Z + z)*Y + y)*X + x of frame i; and as  *)
(* frame i is a pattern plus i, get_volume(i + 1) - get_volume(i) is all   *)
(* ones in 16-bit arithmetic.                                              *)
C1_SingleVolumeRead ==
    (Called("get_volume") /\ InRange(op.index) /\ raf = "open" /\ WholeFile) =>
        LET i == op.index
            bpv == 2 * C_ * Z_ * Y_ * X_ + 16
            lo == 52 + i * bpv + 16
        IN /\ result.exc = "none"
           /\ result.read = <<lo, lo + (bpv - 16)>>
           /\ (op.conversion = "None" /\ ~op.imagej) =>
                /\ result.ret.shape = <<1, C_, Z_, Y_, X_>>
                /\ \A q \in Idx4(<<C_, Z_, Y_, X_>>) :
                       At(result.ret, <<0>> \o q)
                           = FileSample(i, ((q[1] * Z_ + q[2]) * Y_ + q[3]) * X_ + q[4])
                /\ (i + 1 < T_) =>
                       LET v2 == get_volume(raf, file, header, i + 1, "None", FALSE).ret
                       IN \A q \in Idx5(result.ret.shape) :
                              (At(v2, q) - At(result.ret, q)) % U16 = 1

C1_Witness ==
    /\ Called("get_volume") /\ raf = "open" /\ result.exc = "none"
    /\ op.index = 1 /\ T_ = 3 /\ op.conversion = "None" /\ ~op.imagej
    /\ C_ = 1 /\ Z_ = 2 /\ Y_ = 2 /\ X_ = 2
    /\ At(result.ret, <<0, 0, 1, 1, 1>>) = FileSample(1, 7)

(* C2: for 0 <= start <= end < T, get_multi_volumes(start, end) reads from *)
(* offset 52 + start*bytesPerVolume (before the gap) and returns           *)
(* N = end - start + 1 volumes of shape (N, C, Z, Y, X) whose n-th volume  *)
(* is element-wise get_volume(start + n)[0].                               *)
C2_RangeEqualsSingles ==
    (/\ Called("get_multi_volumes") /\ InRange(op.start) /\ InRange(op.end)
     /\ op.start <= op.end /\ raf = "open" /\ op.conversion = "None" /\ ~op.imagej) =>
        LET N == op.end - op.start + 1
            bpv == 2 * C_ * Z_ * Y_ * X_ + 16
        IN /\ result.exc = "none"
           /\ result.read = <<52 + op.start * bpv, 52 + op.start * bpv + N * bpv>>
           /\ result.ret.shape = <<N, C_, Z_, Y_, X_>>
           /\ \A n \in 0..(N - 1) :
                  LET one == get_volume(raf, file, header, op.start + n, "None", FALSE)
                  IN /\ one.exc = "none"
                     /\ one.read[1] = 52 + (op.start + n) * bpv + 16
                     /\ one.ret.dtype = result.ret.dtype
                     /\ \A q \in Idx4(<<C_, Z_, Y_, X_>>) :
                            At(result.ret, <<n>> \o q) = At(one.ret, <<0>> \o q)

C2_Witness ==
    /\ Called("get_multi_volumes") /\ raf = "open" /\ result.exc = "none"
    /\ op.start = 1 /\ op.end = 2 /\ op.conversion = "None" /\ ~op.imagej
    /\ C_ = 2 /\ Z_ = 1 /\ Y_ = 2 /\ X_ = 2
    /\ result.ret.shape = <<2, 2, 1, 2, 2>>
    /\ At(result.ret, <<1, 1, 0, 0, 1>>) = FileSample(2, 5)

(* C3: an index that is negative or >= T makes get_volume raise            *)
(* IndexError, and either endpoint alone out of [0, T) makes               *)
(* get_multi_volumes raise IndexError, whatever the other endpoint and     *)
(* their order; no data is returned and no byte of the mapping is read.    *)
C3_OutOfRangeIsIndexError ==
    /\ (Called("get_volume") /\ ~InRange(op.index)) =>
           /\ result.exc = "IndexError"
           /\ result.ret = NoArray
           /\ result.read = <<>>
    /\ (Called("get_multi_volumes") /\ (~InRange(op.start) \/ ~InRange(op.end))) =>
           /\ result.exc = "IndexError"
           /\ result.ret = NoArray
           /\ result.read = <<>>

C3_Witness ==
    /\ Called("get_multi_volumes") /\ raf = "open"
    /\ op.start = T_ /\ op.end = 0
    /\ result.exc = "IndexError"

(* C4: after __exit__, and after an __enter__ that raised (the file       *)
(* opened but the mapping was refused included), neither the file handle   *)
(* nor the mapping of the stack is open.                                   *)
C4_ReleasedOnEveryExitPath ==
    (\/ Called("__exit__")
     \/ (Called("__enter__") /\ result.exc # "none")) =>
        /\ handler # "open"
        /\ raf # "open"

(* C5: with the stack open, an export over T frames with chunk size        *)
(* k >= 1 calls get_multi_volumes on ceil(T/k) ascending, adjoining ranges *)
(* that begin at 0 and end at T - 1, each of k frames but possibly the     *)
(* last, shorter; the batches laid end to end along the time axis (and the *)
(* HDF dataset they are written to) equal                                  *)
(* get_multi_volumes(0, T - 1, conversion, imagej=True).                   *)
C5_ChunkedExportCoversAll ==
    ((Called("save_all_volumes_to_tiff") \/ Called("save_all_volumes_to_hdf"))
     /\ raf = "open") =>
        LET k == op.chunksize
            n == Len(result.calls)
            full == get_multi_volumes(raf, file, header, 0, T_ - 1, op.conversion, TRUE).ret
        IN /\ result.exc = "none"
           /\ n = (T_ + k - 1) \div k
           /\ Len(result.batches) = n
           /\ result.calls[1][1] = 0
           /\ result.calls[n][2] = T_ - 1
           /\ \A m \in 1..n :
                  /\ result.calls[m][1] <= result.calls[m][2]
                  /\ result.calls[m][2] - result.calls[m][1] + 1 <= k
                  /\ (m < n) => /\ result.calls[m][2] - result.calls[m][1] + 1 = k
                                /\ result.calls[m + 1][1] = result.calls[m][2] + 1
                  /\ result.batches[m].dtype = full.dtype
                  /\ result.batches[m].shape
                         = <<result.calls[m][2] - result.calls[m][1] + 1>> \o Tail(full.shape)
                  /\ \A q \in Idx5(result.batches[m].shape) :
                         At(result.batches[m], q)
                             = At(full, <<result.calls[m][1] + q[1]>> \o Tail(q))
           /\ Called("save_all_volumes_to_hdf") => SameArray(result.dset, full)

C5_Witness ==
    /\ Called("save_all_volumes_to_hdf") /\ raf = "open" /\ result.exc = "none"
    /\ T_ = 3 /\ op.chunksize = 2 /\ C_ = 1 /\ Z_ = 2
    /\ result.calls = << <<0, 1>>, <<2, 2>> >>
    /\ result.batches[2].shape = <<1, 2, 1, Y_, X_>>

(* C6: get_volume(i) has shape (1, C, Z, Y, X), with imagej=True           *)
(* (1, Z, C, Y, X); get_multi_volumes(start, end) with N frames has shape  *)
(* (N, C, Z, Y, X), with imagej=True (N, Z, C, Y, X); and element          *)
(* [t, z, c, y, x] of the imagej result is element [t, c, z, y, x] of the  *)
(* result without it.                                                      *)
C6_InterchangeLayout ==
    /\ (Called("get_volume") /\ InRange(op.index) /\ raf = "open") =>
           LET plain == get_volume(raf, file, header, op.index, op.conversion, FALSE).ret
           IN /\ result.exc = "none"
              /\ plain.shape = <<1, C_, Z_, Y_, X_>>
              /\ result.ret.shape
                     = IF op.imagej THEN <<1, Z_, C_, Y_, X_>> ELSE <<1, C_, Z_, Y_, X_>>
              /\ op.imagej =>
                     \A q \in Idx5(<<1, Z_, C_, Y_, X_>>) :
                         At(result.ret, q) = At(plain, <<q[1], q[3], q[2], q[4], q[5]>>)
    /\ (Called("get_multi_volumes") /\ InRange(op.start) /\ InRange(op.end)
        /\ op.start <= op.end /\ raf = "open") =>
           LET N == op.end - op.start + 1
               plain == get_multi_volumes(raf, file, header, op.start, op.end,
                                          op.conversion, FALSE).ret
           IN /\ result.exc = "none"
              /\ plain.shape = <<N, C_, Z_, Y_, X_>>
              /\ result.ret.shape
                     = IF op.imagej THEN <<N, Z_, C_, Y_, X_>> ELSE <<N, C_, Z_, Y_, X_>>
              /\ op.imagej =>
                     \A q \in Idx5(<<N, Z_, C_, Y_, X_>>) :
                         At(result.ret, q) = At(plain, <<q[1], q[3], q[2], q[4], q[5]>>)

C6_Witness ==
    /\ Called("get_multi_volumes") /\ raf = "open" /\ result.exc = "none"
    /\ op.imagej /\ op.start = 0 /\ op.end = 2 /\ op.conversion = "None"
    /\ C_ = 1 /\ Z_ = 2 /\ Y_ = 2 /\ X_ = 2
    /\ result.ret.shape = <<3, 2, 1, 2, 2>>
    /\ At(result.ret, <<2, 1, 0, 1, 0>>) = FileSample(2, 6)

(* C7: for a, b in [0, T), every conversion key and layout flag,           *)
(* get_multi_volumes(a, b) is not rejected and returns the array           *)
(* get_multi_volumes(b, a) returns, its frames ascending from min(a, b).   *)
C7_ReversedRange ==
    (Called("get_multi_volumes") /\ InRange(op.start) /\ InRange(op.end) /\ raf = "open") =>
        LET rev == get_multi_volumes(raf, file, header, op.end, op.start,
                                     op.conversion, op.imagej)
            lo == Min(op.start, op.end)
            N == Max(op.start, op.end) - lo + 1
        IN /\ result.exc = "none"
           /\ rev.exc = "none"
           /\ result.ret.shape[1] = N
           /\ SameArray(result.ret, rev.ret)
           /\ \A n \in 0..(N - 1) :
                  LET one == get_multi_volumes(raf, file, header, lo + n, lo + n,
                                               op.conversion, op.imagej).ret
                  IN \A q \in Idx5(one.shape) :
                         At(result.ret, <<n>> \o Tail(q)) = At(one, q)

C7_Witness ==
    /\ Called("get_multi_volumes") /\ raf = "open" /\ result.exc = "none"
    /\ op.start = 2 /\ op.end = 0 /\ op.conversion = "None" /\ ~op.imagej
    /\ C_ = 2 /\ Z_ = 1 /\ Y_ = 2 /\ X_ = 2
    /\ result.ret.shape = <<3, 2, 1, 2, 2>>
    /\ At(result.ret, <<0, 0, 0, 0, 0>>) = FileSample(0, 0)
    /\ At(result.ret, <<2, 1, 0, 1, 1>>) = FileSample(2, 7)

(* What the last retrieval would have returned with no conversion key.    *)
NativeOfCall ==
    IF op.name = "get_volume"
    THEN get_volume(raf, file, header, op.index, "None", op.imagej)
    ELSE get_multi_volumes(raf, file, header, op.start, op.end, "None", op.imagej)

ValidRetrieval ==
    /\ raf = "open"
    /\ \/ Called("get_volume") /\ InRange(op.index)
       \/ Called("get_multi_volumes") /\ InRange(op.start) /\ InRange(op.end)

ReturnsNative ==
    /\ result.exc = "none"
    /\ result.ret.dtype = "u2"
    /\ SameArray(result.ret, NativeOfCall.ret)

C9_SingleAndRangeAgree ==
    (Called("get_volume") /\ InRange(op.index) /\ raf = "open") =>
        LET multi == get_multi_volumes(raf, file, header, op.index, op.index,
                                       op.conversion, op.imagej)
        IN /\ result.exc = "none"
           /\ multi.exc = "none"
           /\ SameArray(result.ret, multi.ret)
           /\ result.warned = multi.warned

(* C10: a retrieval returns data only while the mapping is open (after a   *)
(* successful __enter__ and before the next __exit__): with an in-range    *)
(* index on a stack that is not open it raises and returns nothing; a      *)
(* successful __enter__ leaves the stack open, an __exit__ never leaves it *)
(* open; and the header is at all times the one parsed from the file at    *)
(* construction.                                                           *)
C10_RetrievalOnlyWhileOpen ==
    /\ header = from_3DU16(file)
    /\ (raf = "open") => (handler = "open")
    /\ (Called("__enter__") /\ result.exc = "none") => (raf = "open")
    /\ Called("__exit__") => (raf # "open")
    /\ (result.ret # NoArray \/ result.batches # <<>>) => (raf = "open")
    /\ (/\ raf # "open"
        /\ \/ Called("get_volume") /\ InRange(op.index)
           \/ Called("get_multi_volumes") /\ InRange(op.start) /\ InRange(op.end)) =>
           /\ result.exc \in {"TypeError", "ValueError"}
           /\ result.ret = NoArray
           /\ result.read = <<>>

C10_Witness ==
    /\ Called("get_volume") /\ InRange(op.index)
    /\ raf = "closed" /\ handler = "closed"
    /\ result.exc = "ValueError"
    /\ result.ret = NoArray

====
